---- MODULE Spec2Model ----
(***************************************************************************)
(* A model of the LC-3 simulator lc3sim.cc: the Simulator object (memory_,  *)
(* registers_), the image loader ReadImage, the fetch/decode/execute loop   *)
(* Run, the keyboard port handling of ReadMemory, and the part of main that *)
(* loads the images, switches the console to raw mode and runs the machine. *)
(*                                                                         *)
(* Words are 16 bits wide: every arithmetic result is taken modulo 2^16.    *)
(* Values the program reads without having written them (the members of a  *)
(* default-initialised Simulator, an access outside memory_) are drawn     *)
(* from small sets of possible outcomes.                                   *)
(***************************************************************************)
EXTENDS Integers, Sequences, FiniteSets, TLC

\* ------------------------------------------------------------------------
\* Bounds of the model
\* ------------------------------------------------------------------------
MaxImages == 2   \* image arguments on the command line
MaxSteps  == 3   \* iterations of the run loop
MaxKeys   == 2   \* characters the user types

\* ------------------------------------------------------------------------
\* Program constants
\* ------------------------------------------------------------------------
WordSize == 65536           \* values of a uint16_t
UINT16_MAX == 65535
MemorySize == UINT16_MAX    \* std::array<uint16_t, UINT16_MAX> memory_
kRegisterCount == 10

kR0 == 0
kR7 == 7
kPC == 8
kCondition == 9

kBranch == 0
kAdd == 1
kLoad == 2
kStore == 3
kJumpRegister == 4
kBitwiseAnd == 5
kLoadRegister == 6
kStoreRegister == 7
kReturnFromInterrupt == 8
kBitwiseNot == 9
kLoadIndirect == 10
kStoreIndirect == 11
kJump == 12
kReserved == 13
kLoadEffectiveAddress == 14
kTrap == 15

kPositive == 1
kZero == 2
kNegative == 4

KeyboardStatus == 65024     \* 0xFE00
KeyboardData == 65026       \* 0xFE02

kGetC == 32
kOut == 33
kPutS == 34
kIn == 35
kPutSP == 36
kHalt == 37

kPCStart == 12288           \* 0x3000
EOFChar == 65535            \* static_cast<uint16_t>(EOF)

\* ------------------------------------------------------------------------
\* 16-bit arithmetic
\* ------------------------------------------------------------------------
Pow2(n) == 2 ^ n

Wrap(x) == x % WordSize

ShiftRight(x, n) == x \div Pow2(n)

RECURSIVE BitAnd(_, _)
BitAnd(a, b) ==
    IF a = 0 \/ b = 0 THEN 0
    ELSE (IF a % 2 = 1 /\ b % 2 = 1 THEN 1 ELSE 0) + 2 * BitAnd(a \div 2, b \div 2)

RECURSIVE BitOr(_, _)
BitOr(a, b) ==
    IF a = 0 THEN b
    ELSE IF b = 0 THEN a
    ELSE (IF a % 2 = 1 \/ b % 2 = 1 THEN 1 ELSE 0) + 2 * BitOr(a \div 2, b \div 2)

BitNot(a) == (WordSize - 1) - a

\* SignExtend with the sign taken from bit bitCount.
SignExtendWrongBit(x, bitCount) ==
    IF ShiftRight(x, bitCount) % 2 = 1
    THEN Wrap(BitOr(x, UINT16_MAX * Pow2(bitCount)))
    ELSE x

\* uint16_t SignExtend(uint16_t x, int bitCount): the mask 0xFFFF << bitCount
\* is an int; the result is truncated to 16 bits on return.
SignExtend(x, bitCount) ==
    IF ShiftRight(x, bitCount - 1) % 2 = 1
    THEN Wrap(BitOr(x, UINT16_MAX * Pow2(bitCount)))
    ELSE x

\* uint16_t Swap16(uint16_t x) { return (x << 8) | (x >> 8); }
Swap16(x) == Wrap(BitOr(x * 256, ShiftRight(x, 8)))

\* ------------------------------------------------------------------------
\* The machine: a record m with the fields
\*   mem      memory_, as the cells written so far (a function on a set of
\*            addresses below MemorySize)
\*   garbage  the word an unwritten cell of memory_ holds
\*   reg      registers_
\*   fd       characters typed and not yet read from the console
\*   buf      characters stdio has read from the console and not yet handed out
\*   eof      the console is at end of input
\*   out      number of characters written to the console
\*   ub       what an access outside memory_ does in this build:
\*            "adjacent" (it lands in registers_, the member that follows
\*            memory_) or "stray" (a read yields garbage, a write is lost,
\*            a runaway string walk faults)
\*   oob      an access fell outside memory_
\*   polls    CheckKeyInput calls
\*   statusReads   reads of the keyboard status address
\*   fate     "ok", "block" (waits in getchar), "abort" (std::abort),
\*            "fault" (killed by an access far outside the object)
\*   running  the local of Run
\* ------------------------------------------------------------------------
InMemory(address) == address < MemorySize

Mem(m, address) ==
    IF address \in DOMAIN m.mem THEN m.mem[address] ELSE m.garbage

Poke(mem, address, x) ==
    [a \in (DOMAIN mem) \cup {address} |-> IF a = address THEN x ELSE mem[a]]

\* uint16_t CheckKeyInput(): select() on the console with a zero timeout.
CheckKeyInput(m) == m.fd # <<>> \/ m.eof

\* std::getchar(): hands out a buffered character, else reads everything the
\* console has into the buffer, else reports end of input, else waits.
\* The result is [m, c]; c is the int converted to uint16_t.
GetChar(m) ==
    IF m.buf # <<>> THEN [m |-> [m EXCEPT !.buf = Tail(m.buf)], c |-> Head(m.buf)]
    ELSE IF m.fd # <<>>
         THEN [m |-> [m EXCEPT !.buf = Tail(m.fd), !.fd = <<>>], c |-> Head(m.fd)]
    ELSE IF m.eof THEN [m |-> m, c |-> EOFChar]
    ELSE [m |-> [m EXCEPT !.fate = "block"], c |-> 0]

\* memory_[address] = x, also for an address that is no cell of memory_.
WriteCell(m, address, x) ==
    IF InMemory(address) THEN [m EXCEPT !.mem = Poke(m.mem, address, x)]
    ELSE IF m.ub = "adjacent" THEN [m EXCEPT !.oob = TRUE, !.reg[kR0] = x]
    ELSE [m EXCEPT !.oob = TRUE]

\* memory_[address] as a value, also for an address that is no cell.
ReadCell(m, address) ==
    IF InMemory(address) THEN Mem(m, address)
    ELSE IF m.ub = "adjacent" THEN m.reg[kR0]
    ELSE m.garbage

NoteAccess(m, address) ==
    IF InMemory(address) THEN m ELSE [m EXCEPT !.oob = TRUE]

\* void WriteMemory(uint16_t address, uint16_t x)
WriteMemory(m, address, x) == WriteCell(m, address, x)

\* The keyboard branch of ReadMemory.
PollKeyboard(m) ==
    LET p == [m EXCEPT !.polls = @ + 1] IN
    IF CheckKeyInput(p)
    THEN LET g == GetChar(p) IN
         [g.m EXCEPT !.mem = Poke(Poke(g.m.mem, KeyboardStatus, 32768),
                                  KeyboardData, g.c)]
    ELSE [p EXCEPT !.mem = Poke(p.mem, KeyboardStatus, 0)]

\* uint16_t ReadMemory(uint16_t address): the result is [m, v].
ReadMemory(m, address) ==
    LET m1 == IF address = KeyboardStatus
              THEN PollKeyboard([m EXCEPT !.statusReads = @ + 1])
              ELSE m
    IN [m |-> NoteAccess(m1, address), v |-> ReadCell(m1, address)]

\* UpdateFlags with the sign test on bit 14.
UpdateFlagsWrongBit(m, r) ==
    IF m.reg[r] = 0 THEN [m EXCEPT !.reg[kCondition] = kZero]
    ELSE IF ShiftRight(m.reg[r], 14) % 2 # 0
         THEN [m EXCEPT !.reg[kCondition] = kNegative]
    ELSE [m EXCEPT !.reg[kCondition] = kPositive]

\* void UpdateFlags(uint16_t r)
UpdateFlags(m, r) ==
    IF m.reg[r] = 0 THEN [m EXCEPT !.reg[kCondition] = kZero]
    ELSE IF ShiftRight(m.reg[r], 15) # 0 THEN [m EXCEPT !.reg[kCondition] = kNegative]
    ELSE [m EXCEPT !.reg[kCondition] = kPositive]

GeneralRegisters == kR0..kR7

\* The value of an n-bit two's-complement field.
Signed(x, n) == IF x >= Pow2(n - 1) THEN x - Pow2(n) ELSE x

\* Instruction fields.
OpOf(instr) == ShiftRight(instr, 12)
DstOf(instr) == ShiftRight(instr, 9) % 8      \* (instr >> 9) & 0x7
BaseOf(instr) == ShiftRight(instr, 6) % 8     \* (instr >> 6) & 0x7
Src2Of(instr) == instr % 8                    \* instr & 0x7
ImmFlag(instr) == ShiftRight(instr, 5) % 2 = 1
LongFlag(instr) == ShiftRight(instr, 11) % 2 = 1
TrapVector(instr) == instr % 256              \* instr & 0xFF

\* ------------------------------------------------------------------------
\* Instructions.  Each operator takes the machine after the fetch (the
\* program counter already incremented) and the fetched word.
\* ------------------------------------------------------------------------
SetReg(m, r, x) == [m EXCEPT !.reg[r] = x]

\* case kAdd
ExecAdd(m, instr) ==
    LET r0 == DstOf(instr)
        r1 == BaseOf(instr)
        v == IF ImmFlag(instr)
             THEN Wrap(m.reg[r1] + SignExtend(instr % 32, 5))
             ELSE Wrap(m.reg[r1] + m.reg[Src2Of(instr)])
    IN UpdateFlags(SetReg(m, r0, v), r0)

\* case kBitwiseAnd with the immediate used without sign extension.
ExecAndZeroExtended(m, instr) ==
    LET r0 == DstOf(instr)
        r1 == BaseOf(instr)
        v == IF ImmFlag(instr)
             THEN BitAnd(m.reg[r1], instr % 32)
             ELSE BitAnd(m.reg[r1], m.reg[Src2Of(instr)])
    IN UpdateFlags(SetReg(m, r0, v), r0)

\* case kBitwiseAnd
ExecAnd(m, instr) ==
    LET r0 == DstOf(instr)
        r1 == BaseOf(instr)
        v == IF ImmFlag(instr)
             THEN BitAnd(m.reg[r1], SignExtend(instr % 32, 5))
             ELSE BitAnd(m.reg[r1], m.reg[Src2Of(instr)])
    IN UpdateFlags(SetReg(m, r0, v), r0)

\* case kBitwiseNot
ExecNot(m, instr) ==
    LET r0 == DstOf(instr)
    IN UpdateFlags(SetReg(m, r0, BitNot(m.reg[BaseOf(instr)])), r0)

\* case kBranch
ExecBranch(m, instr) ==
    LET pcOffset == SignExtend(instr % 512, 9)
        condition == DstOf(instr)
    IN IF BitAnd(condition, m.reg[kCondition]) # 0
       THEN SetReg(m, kPC, Wrap(m.reg[kPC] + pcOffset))
       ELSE m

\* case kJump
ExecJump(m, instr) == SetReg(m, kPC, m.reg[BaseOf(instr)])

\* case kJumpRegister with R7 stored after the jump.
ExecJumpRegisterLinkLate(m, instr) ==
    LET m1 == IF LongFlag(instr)
              THEN SetReg(m, kPC, Wrap(m.reg[kPC] + SignExtend(instr % 2048, 11)))
              ELSE SetReg(m, kPC, Wrap(m.reg[kPC] + m.reg[BaseOf(instr)]))
    IN SetReg(m1, kR7, m1.reg[kPC])

\* case kJumpRegister
ExecJumpRegister(m, instr) ==
    LET m1 == SetReg(m, kR7, m.reg[kPC])
    IN IF LongFlag(instr)
       THEN SetReg(m1, kPC, Wrap(m1.reg[kPC] + SignExtend(instr % 2048, 11)))
       ELSE SetReg(m1, kPC, Wrap(m1.reg[kPC] + m1.reg[BaseOf(instr)]))

\* case kLoad
ExecLoad(m, instr) ==
    LET r0 == DstOf(instr)
        rd == ReadMemory(m, Wrap(m.reg[kPC] + SignExtend(instr % 512, 9)))
    IN UpdateFlags(SetReg(rd.m, r0, rd.v), r0)

\* case kLoadIndirect
ExecLoadIndirect(m, instr) ==
    LET r0 == DstOf(instr)
        ptr == ReadMemory(m, Wrap(m.reg[kPC] + SignExtend(instr % 512, 9)))
        rd == ReadMemory(ptr.m, ptr.v)
    IN UpdateFlags(SetReg(rd.m, r0, rd.v), r0)

\* case kLoadRegister
ExecLoadRegister(m, instr) ==
    LET r0 == DstOf(instr)
        rd == ReadMemory(m, Wrap(m.reg[BaseOf(instr)] + SignExtend(instr % 64, 6)))
    IN UpdateFlags(SetReg(rd.m, r0, rd.v), r0)

\* case kLoadEffectiveAddress
ExecLoadEffectiveAddress(m, instr) ==
    LET r0 == DstOf(instr)
    IN UpdateFlags(SetReg(m, r0, Wrap(m.reg[kPC] + SignExtend(instr % 512, 9))), r0)

\* case kStore
ExecStore(m, instr) ==
    WriteMemory(m, Wrap(m.reg[kPC] + SignExtend(instr % 512, 9)), m.reg[DstOf(instr)])

\* case kStoreIndirect
ExecStoreIndirect(m, instr) ==
    LET ptr == ReadMemory(m, Wrap(m.reg[kPC] + SignExtend(instr % 512, 9)))
    IN WriteMemory(ptr.m, ptr.v, ptr.m.reg[DstOf(instr)])

\* case kStoreRegister
ExecStoreRegister(m, instr) ==
    WriteMemory(m, Wrap(m.reg[BaseOf(instr)] + SignExtend(instr % 64, 6)),
                m.reg[DstOf(instr)])

\* ------------------------------------------------------------------------
\* Traps
\* ------------------------------------------------------------------------
MinOf(S) == CHOOSE x \in S : \A y \in S : x <= y

\* The first cell at or after start that holds zero (MemorySize: none), where
\* the walk `while (*c) ++c` over memory_ stops.
FirstZero(m, start) ==
    LET written == {a \in DOMAIN m.mem : a >= start /\ m.mem[a] = 0}
        fresh == IF m.garbage = 0
                 THEN {a \in start..(start + Cardinality(DOMAIN m.mem)) :
                         a \notin DOMAIN m.mem /\ InMemory(a)}
                 ELSE {}
    IN IF ~InMemory(start) THEN start
       ELSE IF written \cup fresh = {} THEN MemorySize
       ELSE MinOf(written \cup fresh)

\* Characters put out for the cells start..end-1 of memory_: one for each
\* word, and with packed another one for each word whose high byte is not 0.
CharsOf(m, start, end, packed) ==
    LET cells == {a \in DOMAIN m.mem : start <= a /\ a < end}
        high == Cardinality({a \in cells : ShiftRight(m.mem[a], 8) # 0})
        rest == IF ShiftRight(m.garbage, 8) # 0
                THEN (end - start) - Cardinality(cells) ELSE 0
    IN (end - start) + (IF packed THEN high + rest ELSE 0)

\* The walk continued over registers_ from register r on.
RegChars(m, r, packed) ==
    LET zeros == {i \in r..(kRegisterCount - 1) : m.reg[i] = 0}
        stop == IF zeros = {} THEN kRegisterCount ELSE MinOf(zeros)
        high == Cardinality({i \in r..(stop - 1) : ShiftRight(m.reg[i], 8) # 0})
    IN [faults |-> zeros = {},
        chars |-> (stop - r) + (IF packed THEN high ELSE 0)]

\* case kPutS (packed = FALSE) and case kPutSP (packed = TRUE): the words are
\* read through the pointer c, not through ReadMemory.
PutString(m, packed) ==
    LET start == m.reg[kR0]
        end == FirstZero(m, start)
        last == IF InMemory(end) THEN end ELSE MemorySize - 1
        seen == IF start <= KeyboardStatus /\ KeyboardStatus <= last
                THEN [m EXCEPT !.statusReads = @ + 1] ELSE m
        inside == IF InMemory(start) THEN CharsOf(m, start, end, packed) ELSE 0
        regs == RegChars(m, end - MemorySize, packed)
    IN IF InMemory(end) THEN [seen EXCEPT !.out = @ + inside]
       ELSE IF m.ub = "adjacent" /\ end - MemorySize < kRegisterCount
                                 /\ ~regs.faults
       THEN [seen EXCEPT !.oob = TRUE, !.out = @ + inside + regs.chars]
       ELSE [seen EXCEPT !.oob = TRUE, !.fate = "fault"]

\* case kGetC followed by UpdateFlags(kR0).
TrapGetCWithFlags(m) ==
    LET g == GetChar(m) IN
    IF g.m.fate = "block" THEN g.m ELSE UpdateFlags(SetReg(g.m, kR0, g.c), kR0)

\* case kGetC
TrapGetC(m) ==
    LET g == GetChar(m) IN
    IF g.m.fate = "block" THEN g.m ELSE SetReg(g.m, kR0, g.c)

\* case kOut
TrapOut(m) == [m EXCEPT !.out = @ + 1]

\* case kPutS
TrapPutS(m) == PutString(m, FALSE)

\* case kIn: the prompt "Enter a character: " and the echo are 20 characters.
TrapIn(m) ==
    LET g == GetChar(m) IN
    IF g.m.fate = "block" THEN g.m
    ELSE SetReg([g.m EXCEPT !.out = @ + 20], kR0, g.c)

\* case kPutSP
TrapPutSP(m) == PutString(m, TRUE)

\* case kHalt without running = false.
TrapHaltKeepsRunning(m) == [m EXCEPT !.out = @ + 5]

\* case kHalt: puts("HALT") writes five characters.
TrapHalt(m) == [m EXCEPT !.out = @ + 5, !.running = FALSE]

\* case kTrap with an unknown vector treated as fatal.
ExecTrapStrict(m, instr) ==
    LET v == TrapVector(instr) IN
    CASE v = kGetC -> TrapGetC(m)
      [] v = kOut -> TrapOut(m)
      [] v = kPutS -> TrapPutS(m)
      [] v = kIn -> TrapIn(m)
      [] v = kPutSP -> TrapPutSP(m)
      [] v = kHalt -> TrapHalt(m)
      [] OTHER -> [m EXCEPT !.fate = "abort"]

\* case kTrap
ExecTrap(m, instr) ==
    LET v == TrapVector(instr) IN
    CASE v = kGetC -> TrapGetC(m)
      [] v = kOut -> TrapOut(m)
      [] v = kPutS -> TrapPutS(m)
      [] v = kIn -> TrapIn(m)
      [] v = kPutSP -> TrapPutSP(m)
      [] v = kHalt -> TrapHalt(m)
      [] OTHER -> m

\* The unused opcodes skipped instead of aborting.
ExecAbortSkipped(m, instr) == m

\* case kReserved, case kReturnFromInterrupt, default
ExecAbort(m, instr) == [m EXCEPT !.fate = "abort"]

\* switch (op)
Execute(m, instr) ==
    LET op == OpOf(instr) IN
    CASE op = kAdd -> ExecAdd(m, instr)
      [] op = kBitwiseAnd -> ExecAnd(m, instr)
      [] op = kBitwiseNot -> ExecNot(m, instr)
      [] op = kBranch -> ExecBranch(m, instr)
      [] op = kJump -> ExecJump(m, instr)
      [] op = kJumpRegister -> ExecJumpRegister(m, instr)
      [] op = kLoad -> ExecLoad(m, instr)
      [] op = kLoadIndirect -> ExecLoadIndirect(m, instr)
      [] op = kLoadRegister -> ExecLoadRegister(m, instr)
      [] op = kLoadEffectiveAddress -> ExecLoadEffectiveAddress(m, instr)
      [] op = kStore -> ExecStore(m, instr)
      [] op = kStoreIndirect -> ExecStoreIndirect(m, instr)
      [] op = kStoreRegister -> ExecStoreRegister(m, instr)
      [] op = kTrap -> ExecTrap(m, instr)
      [] OTHER -> ExecAbort(m, instr)

\* uint16_t instr = ReadMemory(registers_[kPC]++): the machine after the
\* fetch and the fetched word, as [m, v].
Fetch(m) ==
    LET address == m.reg[kPC]
    IN ReadMemory(SetReg(m, kPC, Wrap(address + 1)), address)

\* One iteration of the loop of Run: [m, instr].
Iterate(m) ==
    LET f == Fetch(m) IN [m |-> Execute(f.m, f.v), instr |-> f.v]

\* ------------------------------------------------------------------------
\* Image files and the loader
\* ------------------------------------------------------------------------
\* What fread stores for two bytes of the file in a uint16_t of the host.
HostWord(bytes, i) == bytes[i] + 256 * bytes[i + 1]

Min(a, b) == IF a < b THEN a ELSE b

\* bool ReadImage(const std::string &filename), for a file that could be
\* opened: the memory after the load.  A file that ends before the origin
\* word leaves memoryOrigin unset and the second fread reads nothing.
LoadedMemory(mem, bytes) ==
    IF Len(bytes) < 2 THEN mem
    ELSE LET memoryOrigin == Swap16(HostWord(bytes, 1))
             remainingMemorySize == UINT16_MAX - memoryOrigin
             nread == Min(remainingMemorySize, (Len(bytes) - 2) \div 2)
             range == memoryOrigin..(memoryOrigin + nread - 1)
         IN [a \in (DOMAIN mem) \cup range |->
               IF a \in range
               THEN Swap16(HostWord(bytes, 3 + 2 * (a - memoryOrigin)))
               ELSE mem[a]]

\* ReadImage with the program counter moved to the origin of the image.
LoadedRegistersAtOrigin(reg, bytes) ==
    IF Len(bytes) < 2 THEN reg
    ELSE [reg EXCEPT ![kPC] = Swap16(HostWord(bytes, 1))]

\* registers_ after ReadImage: the loader stores into memory_ alone.
LoadedRegisters(reg, bytes) == reg

\* The value ReadImage returns.
ReadImageResult(bytes) == TRUE

\* The file format: big-endian words, the origin first.
WordBytes(w) == <<w \div 256, w % 256>>

RECURSIVE ImageBytes(_)
ImageBytes(words) ==
    IF words = <<>> THEN <<>>
    ELSE WordBytes(Head(words)) \o ImageBytes(Tail(words))

Image(origin, words) == [exists |-> TRUE, bytes |-> ImageBytes(<<origin>> \o words)]
MissingFile == [exists |-> FALSE, bytes |-> <<>>]
EmptyFile == [exists |-> TRUE, bytes |-> <<>>]

\* ------------------------------------------------------------------------
\* Sample instruction words
\* ------------------------------------------------------------------------
Ins(op, fields) == op * 4096 + fields
AddR(dr, sr1, sr2) == Ins(kAdd, dr * 512 + sr1 * 64 + sr2)
AddI(dr, sr1, imm5) == Ins(kAdd, dr * 512 + sr1 * 64 + 32 + imm5)
AndR(dr, sr1, sr2) == Ins(kBitwiseAnd, dr * 512 + sr1 * 64 + sr2)
AndI(dr, sr1, imm5) == Ins(kBitwiseAnd, dr * 512 + sr1 * 64 + 32 + imm5)
NotR(dr, sr) == Ins(kBitwiseNot, dr * 512 + sr * 64 + 63)
Br(nzp, off9) == Ins(kBranch, nzp * 512 + off9)
Jmp(base) == Ins(kJump, base * 64)
Jsr(off11) == Ins(kJumpRegister, 2048 + off11)
Jsrr(base) == Ins(kJumpRegister, base * 64)
Ld(dr, off9) == Ins(kLoad, dr * 512 + off9)
Ldi(dr, off9) == Ins(kLoadIndirect, dr * 512 + off9)
Ldr(dr, base, off6) == Ins(kLoadRegister, dr * 512 + base * 64 + off6)
Lea(dr, off9) == Ins(kLoadEffectiveAddress, dr * 512 + off9)
St(sr, off9) == Ins(kStore, sr * 512 + off9)
Sti(sr, off9) == Ins(kStoreIndirect, sr * 512 + off9)
Str(sr, base, off6) == Ins(kStoreRegister, sr * 512 + base * 64 + off6)
Trap(vector) == Ins(kTrap, vector)

SampleInstructions ==
    { AddR(0, 4, 6), AddI(1, 3, 1), AddI(2, 6, 31), AddI(3, 6, 5),
      AndR(0, 4, 5), AndI(1, 3, 31), AndI(2, 4, 15),
      NotR(0, 3), NotR(1, 6), NotR(2, 5),
      Br(7, 2), Br(2, 511), Br(0, 5), Br(4, 1), Br(1, 256),
      Jmp(1), Jmp(2), Jmp(3), Jmp(7),
      Jsr(5), Jsr(2047), Jsr(1024), Jsrr(2), Jsrr(6), Jsrr(7), Jsrr(0),
      Ld(0, 0), Ld(1, 511), Ld(5, 1),
      Ldi(0, 0), Ldi(3, 1),
      Ldr(0, 1, 0), Ldr(2, 3, 0), Ldr(4, 1, 2), Ldr(0, 7, 1), Ldr(6, 0, 63),
      Lea(0, 0), Lea(1, 256), Lea(7, 255),
      St(4, 1), St(0, 0),
      Sti(4, 0), Sti(5, 1),
      Str(4, 3, 0), Str(4, 1, 0), Str(5, 7, 0), Str(6, 0, 1),
      Trap(kGetC), Trap(kOut), Trap(kPutS), Trap(kIn), Trap(kPutSP), Trap(kHalt),
      Trap(38), Trap(0), Trap(255), Ins(kTrap, 256 + kHalt),
      Ins(kReturnFromInterrupt, 0), Ins(kReturnFromInterrupt, 4095),
      Ins(kReserved, 0), Ins(kReserved, 2748) }

\* The files named on the command line: a missing file, an empty file, an
\* image of an origin alone, one-instruction programs at the start address,
\* data next to the program, an image that reaches the top of the address
\* space, a program around the keyboard status address, a short program, a
\* program that runs into the last address, and two reads of the keyboard
\* status in a row.
DataImages ==
    { Image(12289, <<KeyboardStatus, 65, 16896, 0>>),
      Image(12289, <<65535, 12290>>),
      Image(65534, <<4660, 22136>>),
      Image(65023, <<Ld(0, 0), Trap(kHalt), 66>>),
      Image(kPCStart, <<AndI(0, 0, 0), AddI(0, 0, 5), Trap(kOut), Trap(kHalt)>>),
      Image(kPCStart, <<Ld(0, 1), Jmp(3), Jsr(5)>>),
      Image(kPCStart, <<Ldr(2, 1, 0), Ldr(2, 1, 0)>>) }

Files ==
    {MissingFile, EmptyFile, Image(kPCStart, <<>>)}
      \cup {Image(kPCStart, <<w>>) : w \in SampleInstructions}
      \cup DataImages

\* Characters the user types.
Keys == {65, 66}

\* What a default-initialised Simulator holds before anything is stored in
\* it: R0..R7 and the condition register (registers_ apart from the program
\* counter) and the word in the cells of memory_.
Registers(r0, r1, r2, r3, r4, r5, r6, r7, cond) ==
    [r \in 0..(kRegisterCount - 1) |->
        CASE r = 0 -> r0 [] r = 1 -> r1 [] r = 2 -> r2 [] r = 3 -> r3
          [] r = 4 -> r4 [] r = 5 -> r5 [] r = 6 -> r6 [] r = 7 -> r7
          [] r = kPC -> 0 [] OTHER -> cond]

Uninitialised ==
    { [reg |-> Registers(0, 0, 0, 0, 0, 0, 0, 0, 0), garbage |-> 0],
      [reg |-> Registers(12290, 65024, 65023, 65535, 32767, 32768, 1, 65534, 65535),
       garbage |-> 61477],
      [reg |-> Registers(65024, 12289, 65534, 255, 65535, 12288, 32768, 12290, 2),
       garbage |-> 0] }

UBOutcomes == {"adjacent", "stray"}

\* ------------------------------------------------------------------------
\* State
\* ------------------------------------------------------------------------
VARIABLES
    pc,            \* where main is: "load", "run", "returned", "exited",
                   \* "aborted" (std::abort), "faulted" (killed by a fault),
                   \* "killed" (interrupted with no handler installed)
    loaded,        \* image arguments processed so far
    file,          \* the file of the last ReadImage call
    result,        \* what the last ReadImage call returned
    memory_,       \* the cells of memory_ stored so far
    garbage,       \* the word in the cells of memory_ never stored
    registers_,
    instr,         \* the word fetched by the last iteration of Run
    steps,         \* iterations of Run so far
    stdinQueue,    \* typed, not yet read by the process
    stdinBuf,      \* read by stdio, not yet returned by getchar
    stdinEof,      \* the console is at end of input
    typed,         \* characters typed so far
    written,       \* characters written to the console
    rawMode,       \* the console is in raw mode
    handler,       \* HandleInterrupt is installed
    exitCode,      \* exit status, once exited
    oob,           \* some access fell outside memory_
    polls,         \* CheckKeyInput calls of the last iteration
    statusReads,   \* reads of the keyboard status address in the last iteration
    probe          \* inputs and results of the last direct evaluation of an
                   \* instruction or of SignExtend (none in a run of main)

vars == <<pc, loaded, file, result, memory_, garbage, registers_, instr, steps,
          stdinQueue, stdinBuf, stdinEof, typed, written, rawMode, handler,
          exitCode, oob, polls, statusReads, probe>>

NoProbe == [kind |-> "none"]

\* The machine at the start of an iteration of Run.
Machine(ub) ==
    [mem |-> memory_, garbage |-> garbage, reg |-> registers_,
     fd |-> stdinQueue, buf |-> stdinBuf, eof |-> stdinEof, out |-> written,
     ub |-> ub, oob |-> oob, polls |-> 0, statusReads |-> 0,
     fate |-> "ok", running |-> TRUE]

\* Simulator(): only the program counter is set.
Init ==
    /\ pc = "load"
    /\ loaded = 0
    /\ file = EmptyFile
    /\ result = FALSE
    /\ memory_ = <<>>
    /\ \E u \in Uninitialised :
         /\ garbage = u.garbage
         /\ registers_ = [u.reg EXCEPT ![kPC] = kPCStart]
    /\ instr = 0
    /\ steps = 0
    /\ stdinQueue = <<>>
    /\ stdinBuf = <<>>
    /\ stdinEof = FALSE
    /\ typed = 0
    /\ written = 0
    /\ rawMode = FALSE
    /\ handler = FALSE
    /\ exitCode = 0
    /\ oob = FALSE
    /\ polls = 0
    /\ statusReads = 0
    /\ probe = NoProbe

\* main, argc < 2: ShowUsage and exit(2).
Usage ==
    /\ pc = "load" /\ loaded = 0
    /\ pc' = "exited"
    /\ exitCode' = 2
    /\ UNCHANGED <<probe, loaded, file, result, memory_, garbage, registers_, instr,
                   steps, stdinQueue, stdinBuf, stdinEof, typed, written,
                   rawMode, handler, oob, polls, statusReads>>

\* main: sim.ReadImage(image) for the next image argument.  ReadImage always
\* returns true, so main never takes the exit(2) after it.
LoadImage(f) ==
    /\ pc = "load" /\ loaded < MaxImages
    /\ f.exists
    /\ memory_' = LoadedMemory(memory_, f.bytes)
    /\ registers_' = LoadedRegisters(registers_, f.bytes)
    /\ result' = ReadImageResult(f.bytes)
    /\ file' = f
    /\ loaded' = loaded + 1
    /\ pc' = IF result' THEN "load" ELSE "exited"
    /\ exitCode' = IF result' THEN exitCode ELSE 2
    /\ UNCHANGED <<probe, garbage, instr, steps, stdinQueue, stdinBuf,
                   stdinEof, typed, written, rawMode, handler, oob, polls,
                   statusReads>>

\* main: sim.ReadImage(image) for a file fopen cannot open.  fread is handed
\* a null stream: the process is killed, or fread fails and reads nothing.
LoadMissing(f) ==
    /\ pc = "load" /\ loaded < MaxImages
    /\ ~f.exists
    /\ file' = f
    /\ loaded' = loaded + 1
    /\ \/ /\ pc' = "faulted"
          /\ UNCHANGED result
       \/ /\ pc' = "load"
          /\ result' = ReadImageResult(f.bytes)
    /\ UNCHANGED <<probe, memory_, garbage, registers_, instr, steps, stdinQueue,
                   stdinBuf, stdinEof, typed, written, rawMode, handler,
                   exitCode, oob, polls, statusReads>>

\* main: the loop over the images is over (its locals are gone);
\* signal(SIGINT, HandleInterrupt); DisableInputBuffering(); and the entry
\* of Run.
StartRun ==
    /\ pc = "load" /\ loaded >= 1
    /\ loaded' = 0
    /\ file' = EmptyFile
    /\ result' = FALSE
    /\ handler' = TRUE
    /\ rawMode' = TRUE
    /\ pc' = "run"
    /\ UNCHANGED <<probe, memory_, garbage, registers_, instr, steps, stdinQueue,
                   stdinBuf, stdinEof, typed, written, exitCode, oob, polls,
                   statusReads>>

\* One iteration of the loop of Run.
Step ==
    /\ pc = "run" /\ steps < MaxSteps
    /\ \E ub \in UBOutcomes :
         LET it == Iterate(Machine(ub))
             m == it.m
         IN /\ m.fate # "block"
            /\ instr' = it.instr
            /\ memory_' = m.mem
            /\ registers_' = m.reg
            /\ stdinQueue' = m.fd
            /\ stdinBuf' = m.buf
            /\ written' = m.out
            /\ oob' = m.oob
            /\ polls' = m.polls
            /\ statusReads' = m.statusReads
            /\ pc' = CASE m.fate = "abort" -> "aborted"
                       [] m.fate = "fault" -> "faulted"
                       [] ~m.running -> "returned"
                       [] OTHER -> "run"
    /\ steps' = steps + 1
    /\ UNCHANGED <<probe, loaded, file, result, garbage, stdinEof, typed, rawMode,
                   handler, exitCode>>

\* main after Run has returned: RestoreInputBuffering(); return 0.
Finish ==
    /\ pc = "returned"
    /\ rawMode' = FALSE
    /\ pc' = "exited"
    /\ exitCode' = 0
    /\ UNCHANGED <<probe, loaded, file, result, memory_, garbage, registers_, instr,
                   steps, stdinQueue, stdinBuf, stdinEof, typed, written,
                   handler, oob, polls, statusReads>>

\* SIGINT: HandleInterrupt restores the console and exits with -2; before
\* the handler is installed the signal kills the process.
Interrupt ==
    /\ pc \in {"load", "run", "returned"}
    /\ IF handler
       THEN /\ rawMode' = FALSE
            /\ pc' = "exited"
            /\ exitCode' = 254
       ELSE /\ pc' = "killed"
            /\ UNCHANGED <<rawMode, exitCode>>
    /\ UNCHANGED <<probe, loaded, file, result, memory_, garbage, registers_, instr,
                   steps, stdinQueue, stdinBuf, stdinEof, typed, written,
                   handler, oob, polls, statusReads>>

\* The user types a character.
KeyPress(k) ==
    /\ pc = "run" /\ typed < MaxKeys /\ ~stdinEof
    /\ stdinQueue' = Append(stdinQueue, k)
    /\ typed' = typed + 1
    /\ UNCHANGED <<probe, pc, loaded, file, result, memory_, garbage, registers_,
                   instr, steps, stdinBuf, stdinEof, written, rawMode, handler,
                   exitCode, oob, polls, statusReads>>

\* The console reaches end of input.
CloseInput ==
    /\ pc = "run" /\ ~stdinEof
    /\ stdinEof' = TRUE
    /\ UNCHANGED <<probe, pc, loaded, file, result, memory_, garbage, registers_,
                   instr, steps, stdinQueue, stdinBuf, typed, written, rawMode,
                   handler, exitCode, oob, polls, statusReads>>

Next ==
    \/ Usage
    \/ \E f \in Files : LoadImage(f)
    \/ \E f \in Files : LoadMissing(f)
    \/ StartRun
    \/ Step
    \/ Finish
    \/ Interrupt
    \/ \E k \in Keys : KeyPress(k)
    \/ CloseInput

Spec == Init /\ [][Next]_vars

\* ------------------------------------------------------------------------
\* Direct evaluation of single operations on a freshly constructed machine
\* ------------------------------------------------------------------------
\* Values of a first source register.
SourceValues == {0, 1, 21, 255, 32767, 32768, 65514, 65535}

\* Registers used as first source, as second source and as destination.
FirstSources == {0, 3}
SecondSources == {1, 3}
Destinations == {0, 3, 7}

\* The widths SignExtend is called with in Run.
ExtendWidths == {5, 6, 9, 11}

\* The immediate and the register form of ADD (op = kAdd) or AND (op =
\* kBitwiseAnd) executed from the same registers: sr1 holds v and sr2 holds
\* the 16-bit value of the immediate.
ProbeAlu(op, dr, sr1, sr2, v, imm5) ==
    /\ pc = "load" /\ loaded = 0 /\ probe = NoProbe
    /\ LET operand == (Signed(imm5, 5) + WordSize) % WordSize
           start == Machine("adjacent")
           m == SetReg(SetReg(start, sr1, v), sr2, operand)
           fields == dr * 512 + sr1 * 64
           immediate == Execute(m, Ins(op, fields + 32 + imm5))
           register == Execute(m, Ins(op, fields + sr2))
       IN probe' = [kind |-> "alu", op |-> op, dr |-> dr, sr1 |-> sr1,
                    sr2 |-> sr2, v |-> m.reg[sr1], imm5 |-> imm5,
                    immValue |-> immediate.reg[dr],
                    immFlag |-> immediate.reg[kCondition],
                    regValue |-> register.reg[dr],
                    regFlag |-> register.reg[kCondition]]
    /\ UNCHANGED <<pc, loaded, file, result, memory_, garbage, registers_,
                   instr, steps, stdinQueue, stdinBuf, stdinEof, typed,
                   written, rawMode, handler, exitCode, oob, polls,
                   statusReads>>

\* SignExtend(x, n), and SignExtend again of the low n bits of the result.
ProbeSignExtend(n, x) ==
    /\ pc = "load" /\ loaded = 0 /\ probe = NoProbe
    /\ probe' = [kind |-> "extend", n |-> n, x |-> x,
                 r |-> SignExtend(x, n),
                 again |-> SignExtend(SignExtend(x, n) % Pow2(n), n)]
    /\ UNCHANGED <<pc, loaded, file, result, memory_, garbage, registers_,
                   instr, steps, stdinQueue, stdinBuf, stdinEof, typed,
                   written, rawMode, handler, exitCode, oob, polls,
                   statusReads>>

ProbeNext ==
    \/ \E op \in {kAdd, kBitwiseAnd}, dr \in Destinations,
          sr1 \in FirstSources, sr2 \in SecondSources,
          v \in SourceValues, imm5 \in 0..31 :
            ProbeAlu(op, dr, sr1, sr2, v, imm5)
    \/ \E n \in ExtendWidths : \E x \in 0..(Pow2(n) - 1) : ProbeSignExtend(n, x)

ProbeSpec == Init /\ [][ProbeNext]_vars

\* ------------------------------------------------------------------------
\* Properties
\* ------------------------------------------------------------------------
\* A step of the run loop that fetched a word of opcode op.
Executed(op) == steps' = steps + 1 /\ OpOf(instr') = op

FlagFor(v) == IF v = 0 THEN kZero ELSE IF v >= 32768 THEN kNegative ELSE kPositive

\* C1: after a JSR (bit 11 set) the program counter is the program counter
\* after the fetch plus the sign-extended pcOffset11, modulo 2^16; after a
\* JSRR (bit 11 clear) it is the value of the base register (for R7 either
\* the value before the instruction or the return address just stored).
C1_JumpTarget ==
    [][Executed(kJumpRegister) =>
         LET fetched == (registers_[kPC] + 1) % WordSize
             base == BaseOf(instr')
         IN IF LongFlag(instr')
            THEN registers_'[kPC]
                   = (fetched + Signed(instr' % 2048, 11) + WordSize) % WordSize
            ELSE IF base = kR7
                 THEN registers_'[kPC] \in {registers_[kR7], fetched}
                 ELSE registers_'[kPC] = registers_[base]]_vars

\* C2: in every state, from construction on, the condition register holds
\* exactly one of Positive, Zero, Negative.
C2_OneFlag == registers_[kCondition] \in {kPositive, kZero, kNegative}

\* C3: no access of the engine falls outside the storage of the memory.
C3_AccessInsideStorage == ~oob

\* C4: a load of a missing file or of an empty file reports failure to its
\* caller and leaves memory unchanged.
C4_LoadFailureReported ==
    [][(loaded' = loaded + 1 /\ (~file'.exists \/ file'.bytes = <<>>)) =>
         (pc' # "faulted" /\ result' = FALSE /\ memory_' = memory_)]_vars

\* C5: right after loading an image of origin O and words w0..wn with
\* O + n <= 0xFFFF, the cells O..O+n hold w0..wn.
C5_RoundTrip ==
    (pc = "load" /\ loaded > 0 /\ file.exists /\ Len(file.bytes) >= 2) =>
        LET O == file.bytes[1] * 256 + file.bytes[2]
            count == (Len(file.bytes) - 2) \div 2
        IN O + count - 1 <= 65535 =>
             \A i \in 0..(count - 1) :
                /\ (O + i) \in DOMAIN memory_
                /\ memory_[O + i]
                     = file.bytes[3 + 2 * i] * 256 + file.bytes[4 + 2 * i]

\* C6: every read of the keyboard status address made by an iteration of
\* the run loop polls the console.
C6_StatusReadPolls == statusReads = polls

\* C7: a fetched word of opcode 8 or 13 ends the run in the fatal state,
\* which is not the state after a halt; apart from the fetch (the program
\* counter advances, and a fetch from the keyboard status address refreshes
\* the keyboard ports) no register and no memory cell changes; and nothing is
\* fetched afterwards.
C7_FatalOpcode ==
    [][/\ (Executed(kReturnFromInterrupt) \/ Executed(kReserved)) =>
            /\ pc' = "aborted"
            /\ \A r \in GeneralRegisters \cup {kCondition} :
                  registers_'[r] = registers_[r]
            /\ registers_'[kPC] = (registers_[kPC] + 1) % WordSize
            /\ registers_[kPC] # KeyboardStatus => memory_' = memory_
       /\ pc = "aborted" =>
            /\ pc' = "aborted"
            /\ UNCHANGED <<steps, instr, registers_, memory_>>]_vars

C7_Witness ==
    /\ pc = "aborted"
    /\ OpOf(instr) = kReturnFromInterrupt
    /\ instr % 4096 # 0

\* C8: a TRAP with vector 0x25 makes the run loop return; the run loop
\* returns only then; and once it has returned nothing is fetched and no
\* register and no memory cell changes.
Halted == pc = "returned" \/ (pc = "exited" /\ steps > 0 /\ exitCode = 0)

C8_HaltTerminal ==
    [][/\ (Executed(kTrap) /\ TrapVector(instr') = kHalt) => pc' = "returned"
       /\ (pc # "returned" /\ pc' = "returned") =>
            (Executed(kTrap) /\ TrapVector(instr') = kHalt)
       /\ (pc' = "exited" /\ exitCode' = 0) => pc = "returned"
       /\ Halted => (Halted' \/ (pc' = "exited" /\ exitCode' = 254))
       /\ Halted => UNCHANGED <<steps, instr, registers_, memory_>>]_vars

C8_Witness ==
    /\ pc = "exited" /\ exitCode = 0
    /\ instr = Trap(kHalt)
    /\ steps = 1

\* C9: after an ADD, AND, NOT, LD, LDI, LDR or LEA the condition register
\* is Zero if the destination register holds 0, Negative if its bit 15 is
\* set, Positive otherwise.
FlagOpcodes ==
    {kAdd, kBitwiseAnd, kBitwiseNot, kLoad, kLoadIndirect, kLoadRegister,
     kLoadEffectiveAddress}

C9_FlagsMatch ==
    (steps > 0 /\ OpOf(instr) \in FlagOpcodes) =>
        registers_[kCondition] = FlagFor(registers_[DstOf(instr)])

C9_Witness ==
    /\ steps > 0
    /\ OpOf(instr) = kAdd
    /\ registers_[DstOf(instr)] = 32768
    /\ registers_[kCondition] = kNegative

\* C10: ST, STI, STR, BR, JMP, JSR, JSRR and every TRAP leave the condition
\* register as it was.
FrameOpcodes ==
    {kStore, kStoreIndirect, kStoreRegister, kBranch, kJump, kJumpRegister, kTrap}

C10_FlagsKept ==
    [][(steps' = steps + 1 /\ OpOf(instr') \in FrameOpcodes) =>
         registers_'[kCondition] = registers_[kCondition]]_vars

C10_Witness ==
    /\ steps > 0
    /\ instr = Trap(kGetC)
    /\ registers_[kR0] = 65
    /\ registers_[kCondition] # kPositive

\* C11: JSR and JSRR leave in R7 the program counter after the fetch, the
\* address after the instruction modulo 2^16 (0 for an instruction at 0xFFFF).
C11_ReturnAddress ==
    [][Executed(kJumpRegister) =>
         registers_'[kR7] = (registers_[kPC] + 1) % WordSize]_vars

C11_Witness ==
    /\ steps > 0
    /\ instr = Jsr(5)
    /\ registers_[kR7] = 0
    /\ registers_[kPC] = 5

\* The characters typed and not yet handed to the program, oldest first.
Unconsumed == stdinBuf \o stdinQueue

\* C12: a read of the keyboard status address (the console not at end of
\* input): with no character waiting the status port becomes 0 and the data
\* port keeps its value; with a character waiting the status port becomes
\* 0x8000 and the data port holds the next character.
C12_StatusRead ==
    [][(steps' = steps + 1 /\ polls' = 1 /\ ~stdinEof) =>
         IF Unconsumed = <<>>
         THEN /\ memory_'[KeyboardStatus] = 0
              /\ (KeyboardData \in DOMAIN memory_') = (KeyboardData \in DOMAIN memory_)
              /\ KeyboardData \in DOMAIN memory_ =>
                    memory_'[KeyboardData] = memory_[KeyboardData]
         ELSE /\ memory_'[KeyboardStatus] = 32768
              /\ memory_'[KeyboardData] = Head(Unconsumed)]_vars

\* C13: a call of ReadImage changes no register (program counter, R0..R7,
\* condition register), and the run loop is entered with the program
\* counter at 0x3000 whatever was loaded.
C13_LoadKeepsRegisters ==
    [][/\ loaded' = loaded + 1 => registers_' = registers_
       /\ (pc = "load" /\ pc' = "run") => registers_'[kPC] = kPCStart]_vars

C13_Witness ==
    /\ pc = "load" /\ loaded = 2
    /\ file.exists /\ Len(file.bytes) >= 4
    /\ file.bytes[1] = 255
    /\ 65534 \in DOMAIN memory_
    /\ registers_[kPC] = kPCStart

\* C14: a TRAP whose vector is none of 0x20..0x25 advances the program
\* counter by the fetch and changes nothing else: no register, no memory
\* cell, nothing written, nothing read from the console, and the machine
\* keeps running.
C14_UnknownTrap ==
    [][(Executed(kTrap) /\ TrapVector(instr') \notin kGetC..kHalt) =>
         /\ registers_' = [registers_ EXCEPT ![kPC] = (@ + 1) % WordSize]
         /\ memory_' = memory_
         /\ written' = written
         /\ stdinQueue' = stdinQueue /\ stdinBuf' = stdinBuf
         /\ pc' = "run"]_vars

C14_Witness ==
    /\ steps > 0
    /\ instr = Trap(255)
    /\ pc = "run"
    /\ registers_[kPC] = kPCStart + 1

\* C15: for ADD and for AND, the immediate form and the register form give
\* the same destination value and the same condition flag when the second
\* source register holds the sign-extended immediate.
C15_FormsAgree ==
    probe.kind = "alu" =>
        /\ probe.immValue = probe.regValue
        /\ probe.immFlag = probe.regFlag

C15_Witness ==
    /\ probe.kind = "alu"
    /\ probe.op = kBitwiseAnd
    /\ probe.imm5 = 21
    /\ probe.v = 65535
    /\ probe.immValue = 65525
    /\ probe.regFlag = kNegative

\* C16: for N in {5, 6, 9, 11} and 0 <= x < 2^N, SignExtend(x, N) is x when
\* bit N-1 of x is 0 and x - 2^N modulo 2^16 otherwise, and extending the
\* low N bits of the result gives the result again.
C16_SignExtend ==
    probe.kind = "extend" =>
        /\ probe.r = IF probe.x < Pow2(probe.n - 1) THEN probe.x
                     ELSE (probe.x - Pow2(probe.n) + WordSize) % WordSize
        /\ probe.again = probe.r

C16_Witness ==
    /\ probe.kind = "extend"
    /\ probe.n = 11
    /\ probe.x = 1024
    /\ probe.r = 64512

\* The words of an image file, big-endian as the file format has them.
FileOrigin(bytes) == bytes[1] * 256 + bytes[2]
FileCount(bytes) == (Len(bytes) - 2) \div 2
FileWord(bytes, i) == bytes[3 + 2 * i] * 256 + bytes[4 + 2 * i]

\* C17: each load of an image of origin O and n words with O + n - 1 <=
\* 0xFFFF leaves every cell of O..O+n-1 holding the image's word, so that it
\* replaces what earlier images stored there, and changes no cell outside
\* that range.
C17_LoadsOverwrite ==
    [][(loaded' = loaded + 1 /\ file'.exists /\ Len(file'.bytes) >= 2
          /\ FileOrigin(file'.bytes) + FileCount(file'.bytes) - 1 <= 65535) =>
         LET O == FileOrigin(file'.bytes)
             range == O..(O + FileCount(file'.bytes) - 1)
         IN /\ \A a \in range :
                 /\ a \in DOMAIN memory_'
                 /\ memory_'[a] = FileWord(file'.bytes, a - O)
            /\ \A a \in ((DOMAIN memory_) \cup (DOMAIN memory_')) \ range :
                 /\ a \in DOMAIN memory_
                 /\ a \in DOMAIN memory_'
                 /\ memory_'[a] = memory_[a]]_vars

\* C18: an LDI fetched at address A with offset pcOffset9 leaves the program
\* counter at (A + 1) mod 2^16 and the destination register holding
\* memory[memory[(A + 1 + sign-extended pcOffset9) mod 2^16]].
C18_LoadIndirect ==
    [][Executed(kLoadIndirect) =>
         LET next == (registers_[kPC] + 1) % WordSize
             pointer == (next + Signed(instr' % 512, 9) + WordSize) % WordSize
             Cell(a) == IF a \in DOMAIN memory_' THEN memory_'[a] ELSE garbage
         IN /\ registers_'[kPC] = next
            /\ registers_'[DstOf(instr')] = Cell(Cell(pointer))]_vars

\* C19: once the process has ended by a halt, by the fatal termination on
\* opcode 8 or 13 or by an interrupt, the console is not in raw mode.
C19_ConsoleRestored == pc \in {"exited", "aborted"} => ~rawMode

\* A step of the run loop that executed GETC or IN.
ReadsCharacter ==
    Executed(kTrap) /\ TrapVector(instr') \in {kGetC, kIn}

\* C20: an iteration of the run loop removes characters only from the front
\* of the input typed and not yet consumed; a GETC, an IN or a read of the
\* keyboard status address with such input pending takes exactly its first
\* character (into R0, or into the keyboard data cell), and a status read
\* with nothing pending and every other iteration, a read of the keyboard
\* data address included, takes none.
C20_ConsumedInOrder ==
    [][steps' = steps + 1 =>
         LET n == Len(Unconsumed) - Len(Unconsumed')
         IN /\ n >= 0
            /\ Unconsumed' = SubSeq(Unconsumed, n + 1, Len(Unconsumed))
            /\ (ReadsCharacter /\ Unconsumed # <<>>) =>
                   (n = 1 /\ registers_'[kR0] = Head(Unconsumed))
            /\ (polls' = 1 /\ Unconsumed # <<>>) =>
                   (n = 1 /\ memory_'[KeyboardData] = Head(Unconsumed))
            /\ (polls' = 1 /\ Unconsumed = <<>>) => n = 0
            /\ (polls' = 0 /\ ~ReadsCharacter) => n = 0]_vars

====
